---- MODULE Spec2Model ----
(***************************************************************************)
(* FckNatSpotInstanceAspect (src/src/aspects/spot-instance-aspect.ts).     *)
(*                                                                         *)
(* A construct tree is walked; on every AutoScalingGroup whose construct   *)
(* id is 'FckNatAsg' the aspect records a deletion override for the        *)
(* LaunchTemplate property of the L1 resource, installs a mixed-instances  *)
(* policy built from the launch template it read, and adds a metadata      *)
(* entry.  convertToSpotInstance is modelled statement by statement so     *)
(* that the states between the deletion and the installation are states   *)
(* of the model.                                                           *)
(***************************************************************************)
EXTENDS Integers, Sequences, FiniteSets

VARIABLES
    tree,           \* construct tree: per node its scope, id, class and instanceType property
    cfn,            \* per node: the L1 resource (launchTemplate, mixedInstancesPolicy, rawOverrides)
    metadata,       \* per node: node.metadata entries, in the order they were added
    props,          \* this.props of the aspect
    warnings,       \* console.warn calls so far: the nodes whose path was reported
    todo,           \* nodes of the running traversal not visited yet, in visiting order
    pc,             \* "idle" | "visit" | "delete" | "install" | "annotate"
    pass,           \* traversals started so far
    launchTemplate, \* local of convertToSpotInstance (line 71)
    instanceType,   \* local of convertToSpotInstance (line 82)
    pre,            \* cfn and metadata as they were when the running traversal started
    visitCount,     \* per node: calls of visit in the running traversal
    outcome,        \* per node: how visit ended in the running traversal
    prevOutcome     \* per node: how visit ended in the traversal before

vars == <<tree, cfn, metadata, props, warnings, todo, pc, pass, launchTemplate,
          instanceType, pre, visitCount, outcome, prevOutcome>>

(***************************************************************************)
(* Bounds                                                                  *)
(***************************************************************************)
NumNodes == 3
MaxPasses == 2

Nodes == 1..NumNodes
Root == 1
NoNode == 0

(***************************************************************************)
(* Optional values: undefined is <<>>, a value x is <<x>>.                 *)
(***************************************************************************)
Undefined == <<>>
Some(x) == <<x>>
IsDefined(o) == o # Undefined
Get(o) == o[1]

\* JavaScript truthiness of an optional string: undefined and '' are falsy.
Truthy(o) == IsDefined(o) /\ Get(o) # ""

(***************************************************************************)
(* Configuration (FckNatSpotInstanceAspectProps)                           *)
(***************************************************************************)
AllocationStrategies == {"lowest-price", "capacity-optimized", "capacity-optimized-prioritized"}
DefaultAllocationStrategy == "capacity-optimized"

\* The type of spotAllocationStrategy is erased at run time: any string arrives.
StrategyInputs == AllocationStrategies \cup {"random"}
MaxPriceInputs == {"", "0.004"}

Optional(S) == {Undefined} \cup {Some(x) : x \in S}

AllProps == [spotMaxPrice : Optional(MaxPriceInputs),
             spotAllocationStrategy : Optional(StrategyInputs)]

\* The constructor stores the props it is given and checks nothing.
Constructor(p) == p

(***************************************************************************)
(* Construct tree                                                          *)
(***************************************************************************)
FckNatAsgId == "FckNatAsg"

\* ec2.InstanceType: toString() returns the identifier it was built from.
InstanceType(s) == [instanceTypeIdentifier |-> s]
toString(it) == it.instanceTypeIdentifier

\* The instanceType property of a construct: not a property at all, a property
\* without a value, or a property holding an InstanceType.
NoInstanceTypeProp == [present |-> FALSE, value |-> Undefined]
InstanceTypeProp(o) == [present |-> TRUE, value |-> o]
InstanceTypeProps == {NoInstanceTypeProp, InstanceTypeProp(Undefined),
                      InstanceTypeProp(Some(InstanceType(""))),
                      InstanceTypeProp(Some(InstanceType("t4g.nano")))}

LaunchTemplateOf(n) == [launchTemplateId |-> <<"lt", n>>, version |-> <<"version", n>>]

EmptyCfn == [launchTemplate |-> Undefined, mixedInstancesPolicy |-> Undefined,
             rawOverrides |-> {}]
TemplateCfn(n) == [EmptyCfn EXCEPT !.launchTemplate = Some(LaunchTemplateOf(n))]

\* The shape the provider builds itself when useSpotInstances is set.
DirectPolicy(n) ==
    [launchTemplate |-> [launchTemplateSpecification |-> LaunchTemplateOf(n),
                         overrides |-> Undefined],
     instancesDistribution |-> [onDemandPercentageAboveBaseCapacity |-> 0,
                                spotAllocationStrategy |-> DefaultAllocationStrategy,
                                spotMaxPrice |-> Undefined]]
DirectCfn(n) == [EmptyCfn EXCEPT !.mixedInstancesPolicy = Some(DirectPolicy(n))]

Construct(scope, id, isAsg, itp) ==
    [scope |-> scope, id |-> id, isAsg |-> isAsg, instanceTypeProp |-> itp]

Children(n) == {m \in Nodes : tree[m].scope = n}
Min(S) == CHOOSE x \in S : \A y \in S : x <= y

\* Pre-order walk, children in the order they were added to their scope.
RECURSIVE PreOrder(_), PreOrderAll(_)
PreOrder(n) == <<n>> \o PreOrderAll(Children(n))
PreOrderAll(kids) ==
    IF kids = {} THEN <<>>
    ELSE LET k == Min(kids) IN PreOrder(k) \o PreOrderAll(kids \ {k})

(***************************************************************************)
(* Initial states                                                          *)
(***************************************************************************)
Snapshot == [cfn |-> cfn, metadata |-> metadata]

InitControl ==
    /\ metadata = [n \in Nodes |-> <<>>]
    /\ warnings = <<>>
    /\ todo = <<>>
    /\ pc = "idle"
    /\ pass = 0
    /\ launchTemplate = Undefined
    /\ instanceType = Undefined
    /\ pre = Snapshot
    /\ visitCount = [n \in Nodes |-> 0]
    /\ outcome = [n \in Nodes |-> "none"]
    /\ prevOutcome = [n \in Nodes |-> "none"]

\* Auto-scaling groups: with a launch template, with the policy built directly,
\* or with neither; under the id the provider uses or under another id.
AsgIds == {FckNatAsgId, "WorkerAsg"}
AsgCfns(n) == {TemplateCfn(n), DirectCfn(n), EmptyCfn}

\* Other constructs: some carry the provider's id and a launch template of their own.
TreeHints == {NoInstanceTypeProp, InstanceTypeProp(Some(InstanceType("t4g.nano")))}
OtherShapes(n) == {<<FckNatAsgId, TemplateCfn(n)>>, <<"Resource", EmptyCfn>>}

TreeProps == {[spotMaxPrice |-> Undefined, spotAllocationStrategy |-> Undefined],
              [spotMaxPrice |-> Some("0.004"), spotAllocationStrategy |-> Some("lowest-price")]}

AsgNodes(n) ==
    {<<Construct(scope, id, TRUE, NoInstanceTypeProp), b>> :
        scope \in 1..(n - 1), id \in AsgIds, b \in AsgCfns(n)}
OtherNodes(n) ==
    {<<Construct(scope, s[1], FALSE, itp), s[2]>> :
        scope \in 1..(n - 1), s \in OtherShapes(n), itp \in TreeHints}
RootNodes(hints) ==
    {<<Construct(NoNode, "Stack", FALSE, itp), EmptyCfn>> : itp \in hints}

\* Every tree shape and every mix of node kinds: node n is added under a node
\* made before it.
RECURSIVE Trees(_)
Trees(n) ==
    IF n = 1 THEN {<<r>> : r \in RootNodes(TreeHints)}
    ELSE {Append(t, c) : t \in Trees(n - 1), c \in AsgNodes(n) \cup OtherNodes(n)}

\* One FckNat auto-scaling group with a launch template under the root, the
\* root's instanceType property being anything; the other nodes are plain.
OptionTrees ==
    {[n \in Nodes |->
        IF n = Root THEN r
        ELSE IF n = 2 THEN <<Construct(Root, FckNatAsgId, TRUE, NoInstanceTypeProp), TemplateCfn(n)>>
        ELSE <<Construct(Root, "Resource", FALSE, NoInstanceTypeProp), EmptyCfn>>] :
        r \in RootNodes(InstanceTypeProps)}

InitFrom(t, p) ==
    /\ props = Constructor(p)
    /\ tree = [n \in Nodes |-> t[n][1]]
    /\ cfn = [n \in Nodes |-> t[n][2]]

\* All trees under two configurations; all configurations on the option trees.
InitTrees == \E t \in Trees(NumNodes), p \in TreeProps : InitFrom(t, p)
InitOptions == \E t \in OptionTrees, p \in AllProps : InitFrom(t, p)

Init == (InitTrees \/ InitOptions) /\ InitControl


(***************************************************************************)
(* The L1 resource as the synthesizer sees it                              *)
(***************************************************************************)
\* The properties the resource renders: its fields, with every property named
\* by a deletion override removed.
RenderedProperties(n) ==
    [LaunchTemplate |-> IF "LaunchTemplate" \in cfn[n].rawOverrides
                        THEN Undefined ELSE cfn[n].launchTemplate,
     MixedInstancesPolicy |-> cfn[n].mixedInstancesPolicy]

SpotMarker == [type |-> "fck-nat:spot-enabled", data |-> "true"]

(***************************************************************************)
(* visit                                                                   *)
(***************************************************************************)
Visiting(n) == pc = "visit" /\ todo # <<>> /\ n = Head(todo)
Converting(n, at) == pc = at /\ todo # <<>> /\ n = Head(todo)

\* Mutant: the class of the node is not looked at.
MatchesIdOnly(n) == tree[n].id = FckNatAsgId

\* node instanceof AutoScalingGroup && node.node.id === 'FckNatAsg'
Matches(n) == tree[n].isAsg /\ tree[n].id = FckNatAsgId

\* visit returns: the traversal goes on with the next node.
Return(n, how) ==
    /\ todo' = Tail(todo)
    /\ pc' = "visit"
    /\ outcome' = [outcome EXCEPT ![n] = how]

Enter(n) == visitCount' = [visitCount EXCEPT ![n] = @ + 1]

\* The node is no FckNat auto-scaling group: nothing is done.
visitOther(n) ==
    /\ Visiting(n)
    /\ ~Matches(n)
    /\ Enter(n)
    /\ Return(n, "unmatched")
    /\ UNCHANGED <<tree, cfn, metadata, props, warnings, pass, launchTemplate,
                   instanceType, pre, prevOutcome>>

(***************************************************************************)
(* convertToSpotInstance                                                   *)
(***************************************************************************)
\* Mutant: the property is looked up on the group itself, not on its scope.
getInstanceTypeFromSelf(n) ==
    IF tree[n].instanceTypeProp.present
    THEN LET it == tree[n].instanceTypeProp.value IN
         IF IsDefined(it) THEN Some(toString(Get(it))) ELSE Undefined
    ELSE Undefined

\* parent && 'instanceType' in parent ? parent.instanceType?.toString() : undefined
getInstanceTypeFromAsg(n) ==
    LET parent == tree[n].scope IN
    IF parent # NoNode /\ tree[parent].instanceTypeProp.present
    THEN LET it == tree[parent].instanceTypeProp.value IN
         IF IsDefined(it) THEN Some(toString(Get(it))) ELSE Undefined
    ELSE Undefined

\* Mutant: the skipped node is marked as converted all the same.
convertSkipAnnotates(n) ==
    /\ Visiting(n)
    /\ Matches(n)
    /\ ~IsDefined(cfn[n].launchTemplate)
    /\ Enter(n)
    /\ warnings' = Append(warnings, n)
    /\ metadata' = [metadata EXCEPT ![n] = Append(@, SpotMarker)]
    /\ Return(n, "skipped")
    /\ UNCHANGED <<tree, cfn, props, pass, launchTemplate, instanceType, pre,
                   prevOutcome>>

\* Mutant: a missing launch template is thrown as an error, which unwinds the
\* traversal.
convertSkipThrows(n) ==
    /\ Visiting(n)
    /\ Matches(n)
    /\ ~IsDefined(cfn[n].launchTemplate)
    /\ Enter(n)
    /\ todo' = <<>>
    /\ pc' = "visit"
    /\ outcome' = [outcome EXCEPT ![n] = "skipped"]
    /\ UNCHANGED <<tree, cfn, metadata, props, warnings, pass, launchTemplate,
                   instanceType, pre, prevOutcome>>

\* !launchTemplate: warn and return.
convertSkip(n) ==
    /\ Visiting(n)
    /\ Matches(n)
    /\ ~IsDefined(cfn[n].launchTemplate)
    /\ Enter(n)
    /\ warnings' = Append(warnings, n)
    /\ Return(n, "skipped")
    /\ UNCHANGED <<tree, cfn, metadata, props, pass, launchTemplate, instanceType,
                   pre, prevOutcome>>

\* The launch template and the instance type are read before anything is changed.
convertRead(n) ==
    /\ Visiting(n)
    /\ Matches(n)
    /\ IsDefined(cfn[n].launchTemplate)
    /\ Enter(n)
    /\ launchTemplate' = cfn[n].launchTemplate
    /\ instanceType' = getInstanceTypeFromAsg(n)
    /\ pc' = "delete"
    /\ UNCHANGED <<tree, cfn, metadata, props, warnings, todo, pass, pre, outcome,
                   prevOutcome>>

\* Mutant: the deletion override is forgotten.
noPropertyDeletionOverride(n) ==
    /\ Converting(n, "delete")
    /\ pc' = "install"
    /\ UNCHANGED <<tree, cfn, metadata, props, warnings, todo, pass, launchTemplate,
                   instanceType, pre, visitCount, outcome, prevOutcome>>

\* cfnAsg.addPropertyDeletionOverride('LaunchTemplate')
addPropertyDeletionOverride(n) ==
    /\ Converting(n, "delete")
    /\ cfn' = [cfn EXCEPT ![n].rawOverrides = @ \cup {"LaunchTemplate"}]
    /\ pc' = "install"
    /\ UNCHANGED <<tree, metadata, props, warnings, todo, pass, launchTemplate,
                   instanceType, pre, visitCount, outcome, prevOutcome>>

allocationStrategy(p) ==
    IF IsDefined(p.spotAllocationStrategy) THEN Get(p.spotAllocationStrategy)
    ELSE DefaultAllocationStrategy

PolicyOf(id, version, it, p) ==
    [launchTemplate |->
        [launchTemplateSpecification |-> [launchTemplateId |-> id, version |-> version],
         overrides |-> IF Truthy(it) THEN Some(<<[instanceType |-> Get(it)]>>)
                       ELSE Undefined],
     instancesDistribution |->
        [onDemandPercentageAboveBaseCapacity |-> 0,
         spotAllocationStrategy |-> allocationStrategy(p),
         spotMaxPrice |-> IF Truthy(p.spotMaxPrice) THEN p.spotMaxPrice ELSE Undefined]]

\* Mutant: the version is written where the template id belongs.
MixedInstancesPolicyVersionAsId(lt, it, p) == PolicyOf(lt.version, lt.version, it, p)

\* The policy object of lines 90-105.
MixedInstancesPolicy(lt, it, p) == PolicyOf(lt.launchTemplateId, lt.version, it, p)

\* Mutant: one policy is written to every FckNat group of the tree.
setMixedInstancesPolicyOnAll(n) ==
    /\ Converting(n, "install")
    /\ cfn' = [m \in Nodes |->
                  IF Matches(m)
                  THEN [cfn[m] EXCEPT !.mixedInstancesPolicy =
                           Some(MixedInstancesPolicy(Get(launchTemplate), instanceType, props))]
                  ELSE cfn[m]]
    /\ pc' = "annotate"
    /\ UNCHANGED <<tree, metadata, props, warnings, todo, pass, launchTemplate,
                   instanceType, pre, visitCount, outcome, prevOutcome>>

\* cfnAsg.mixedInstancesPolicy = mixedInstancesPolicy
setMixedInstancesPolicy(n) ==
    /\ Converting(n, "install")
    /\ cfn' = [cfn EXCEPT ![n].mixedInstancesPolicy =
                  Some(MixedInstancesPolicy(Get(launchTemplate), instanceType, props))]
    /\ pc' = "annotate"
    /\ UNCHANGED <<tree, metadata, props, warnings, todo, pass, launchTemplate,
                   instanceType, pre, visitCount, outcome, prevOutcome>>

\* asg.node.addMetadata('fck-nat:spot-enabled', 'true'), and visit returns.
addMetadata(n) ==
    /\ Converting(n, "annotate")
    /\ metadata' = [metadata EXCEPT ![n] = Append(@, SpotMarker)]
    /\ Return(n, "mutated")
    /\ launchTemplate' = Undefined
    /\ instanceType' = Undefined
    /\ UNCHANGED <<tree, cfn, props, warnings, pass, pre, visitCount, prevOutcome>>

(***************************************************************************)
(* Traversal                                                               *)
(***************************************************************************)
\* The aspect is applied to the tree: every node is to be visited, in pre-order.
StartTraversal ==
    /\ pc = "idle"
    /\ pass < MaxPasses
    /\ pass' = pass + 1
    /\ todo' = PreOrder(Root)
    /\ pc' = "visit"
    /\ pre' = Snapshot
    /\ visitCount' = [n \in Nodes |-> 0]
    /\ prevOutcome' = outcome
    /\ outcome' = [n \in Nodes |-> "none"]
    /\ UNCHANGED <<tree, cfn, metadata, props, warnings, launchTemplate, instanceType>>

\* No node is left: control returns to the caller.
FinishTraversal ==
    /\ pc = "visit"
    /\ todo = <<>>
    /\ pc' = "idle"
    /\ UNCHANGED <<tree, cfn, metadata, props, warnings, todo, pass, launchTemplate,
                   instanceType, pre, visitCount, outcome, prevOutcome>>

Next ==
    \/ StartTraversal
    \/ FinishTraversal
    \/ \E n \in Nodes : visitOther(n)
    \/ \E n \in Nodes : convertSkip(n)
    \/ \E n \in Nodes : convertRead(n)
    \/ \E n \in Nodes : addPropertyDeletionOverride(n)
    \/ \E n \in Nodes : setMixedInstancesPolicy(n)
    \/ \E n \in Nodes : addMetadata(n)

Spec == Init /\ [][Next]_vars

(***************************************************************************)
(* Properties                                                              *)
(***************************************************************************)
\* The pattern the aspect is meant for, stated apart from the code's test.
FckNatPattern(n) == tree[n].isAsg /\ tree[n].id = "FckNatAsg"

HadTemplate(n) == pre.cfn[n].launchTemplate # <<>>
Visited(n) == outcome[n] # "none"
TraversalOver == pc = "idle" /\ pass >= 1
Unchanged(n) == cfn[n] = pre.cfn[n] /\ metadata[n] = pre.metadata[n]
Count(seq, x) == Cardinality({i \in DOMAIN seq : seq[i] = x})
PolicyOn(n) == cfn[n].mixedInstancesPolicy[1]
Before(n, m) ==
    \E i, j \in DOMAIN PreOrder(Root) :
        i < j /\ PreOrder(Root)[i] = n /\ PreOrder(Root)[j] = m

C2_SecondPassSkips ==
    (pc = "idle" /\ pass >= 2) =>
        \A n \in Nodes :
            prevOutcome[n] = "mutated" =>
                /\ outcome[n] = "skipped"
                /\ cfn[n] = pre.cfn[n]
                /\ Count(metadata[n], SpotMarker) = 1

\* C3: a matched node without a launch template is skipped: its property bag
\* and its metadata are as before, and one warning per traversal names it.
C3_SkipLeavesNodeAlone ==
    \A n \in Nodes :
        (FckNatPattern(n) /\ ~HadTemplate(n) /\ Visited(n)) =>
            /\ outcome[n] = "skipped"
            /\ Unchanged(n)
            /\ cfn[n].rawOverrides = {}
            /\ Count(metadata[n], SpotMarker) = 0
            /\ Count(warnings, n) = pass

C3_Witness ==
    \E n \in Nodes :
        /\ FckNatPattern(n) /\ outcome[n] = "skipped"
        /\ cfn[n].mixedInstancesPolicy # <<>>
        /\ Count(warnings, n) = 1

\* C4: a node that is not an auto-scaling group named 'FckNatAsg' (another
\* group, or that id on another kind of construct) is never modified.
C4_UnmatchedUntouched ==
    \A n \in Nodes :
        ~FckNatPattern(n) =>
            /\ Unchanged(n)
            /\ cfn[n].rawOverrides = {}
            /\ metadata[n] = <<>>
            /\ Count(warnings, n) = 0

C4_Witness ==
    /\ TraversalOver
    /\ \E n, m \in Nodes :
        /\ tree[n].isAsg /\ tree[n].id # "FckNatAsg" /\ cfn[n].launchTemplate # <<>>
        /\ ~tree[m].isAsg /\ tree[m].id = "FckNatAsg" /\ cfn[m].launchTemplate # <<>>
        /\ outcome[n] = "unmatched" /\ outcome[m] = "unmatched"

\* C5 (as claimed): the policy's spotMaxPrice is absent when the option is
\* omitted and is the supplied string, whatever it is, when it is supplied.
C5_MaxPriceVerbatim ==
    \A n \in Nodes :
        outcome[n] = "mutated" =>
            PolicyOn(n).instancesDistribution.spotMaxPrice = props.spotMaxPrice

\* C6: every traversal visits each node exactly once and reaches its end; a
\* skip or a match at one node does not keep a later matching node from
\* being rewritten.
C6_EveryNodeVisitedOnce ==
    /\ \A n \in Nodes : visitCount[n] <= 1
    /\ pc # "idle" =>
          /\ ENABLED Next
          /\ \A n \in Nodes : visitCount[n] = 0 => \E i \in DOMAIN todo : todo[i] = n
    /\ TraversalOver =>
          \A n \in Nodes :
              /\ visitCount[n] = 1
              /\ Visited(n)
              /\ (FckNatPattern(n) /\ HadTemplate(n)) => outcome[n] = "mutated"

C6_Witness ==
    /\ TraversalOver
    /\ \E n, m \in Nodes :
        /\ Before(n, m)
        /\ outcome[n] = "skipped"
        /\ outcome[m] = "mutated"

\* C7: with several matching nodes, each ends the traversal with a policy on
\* its own template id and version, and a step of the rewrite of one node
\* leaves every other node, and the tree's links, as they were.
C7_OwnPolicy ==
    TraversalOver =>
        \A n \in Nodes :
            (FckNatPattern(n) /\ HadTemplate(n)) =>
                /\ cfn[n].mixedInstancesPolicy # <<>>
                /\ PolicyOn(n).launchTemplate.launchTemplateSpecification.launchTemplateId
                       = pre.cfn[n].launchTemplate[1].launchTemplateId
                /\ \A m \in Nodes \ {n} :
                       (FckNatPattern(m) /\ HadTemplate(m)
                            /\ pre.cfn[m].launchTemplate # pre.cfn[n].launchTemplate) =>
                           PolicyOn(m) # PolicyOn(n)

C7_OthersUntouched ==
    /\ tree' = tree
    /\ \A m \in Nodes :
          (todo = <<>> \/ m # Head(todo)) =>
              (cfn'[m] = cfn[m] /\ metadata'[m] = metadata[m])

\* C7: each matching node ends with a policy on its own template, and no step
\* of one node's rewrite changes another node or the tree's links.
C7_IndependentRewrites == [](C7_OwnPolicy) /\ [][C7_OthersUntouched]_vars

C7_Witness ==
    /\ TraversalOver
    /\ \E n, m \in Nodes :
        /\ n # m
        /\ outcome[n] = "mutated" /\ outcome[m] = "mutated"
        /\ PolicyOn(n).launchTemplate.launchTemplateSpecification = LaunchTemplateOf(n)
        /\ PolicyOn(m).launchTemplate.launchTemplateSpecification = LaunchTemplateOf(m)

\* C8 (as claimed): an allocation strategy outside the enumeration is rejected
\* at construction, so no installed policy carries one.
C8_StrategyInEnumeration ==
    \A n \in Nodes :
        cfn[n].mixedInstancesPolicy # <<>> =>
            PolicyOn(n).instancesDistribution.spotAllocationStrategy
                \in {"lowest-price", "capacity-optimized", "capacity-optimized-prioritized"}

ScopeHasInstanceType(n) ==
    /\ tree[n].scope # 0
    /\ tree[tree[n].scope].instanceTypeProp.present
    /\ tree[tree[n].scope].instanceTypeProp.value # <<>>
ScopeInstanceType(n) == tree[tree[n].scope].instanceTypeProp.value[1].instanceTypeIdentifier

\* C10 (as claimed): whenever the scope has an instanceType property with a
\* value, the overrides are exactly one entry with that value; otherwise there
\* are none.
C10_OverrideForAnyValue ==
    \A n \in Nodes :
        outcome[n] = "mutated" =>
            PolicyOn(n).launchTemplate.overrides =
                IF ScopeHasInstanceType(n)
                THEN <<(<<[instanceType |-> ScopeInstanceType(n)]>>)>>
                ELSE <<>>

\* C10 (amended): the overrides are exactly one entry with the instance type
\* when the scope has an instanceType property whose value has a non-empty
\* string form; in every other case there are none, and the rewrite completes.
C10_OverrideForNonEmptyValue ==
    \A n \in Nodes :
        (FckNatPattern(n) /\ HadTemplate(n) /\ Visited(n)) =>
            /\ outcome[n] = "mutated"
            /\ PolicyOn(n).launchTemplate.overrides =
                  IF ScopeHasInstanceType(n) /\ ScopeInstanceType(n) # ""
                  THEN <<(<<[instanceType |-> ScopeInstanceType(n)]>>)>>
                  ELSE <<>>

C10_Witness ==
    \E n \in Nodes :
        /\ outcome[n] = "mutated"
        /\ PolicyOn(n).launchTemplate.overrides = <<(<<[instanceType |-> "t4g.nano"]>>)>>

====
